---------------------------- MODULE Spec2Model ----------------------------
(***************************************************************************)
(* The interactive client of src/client.py: it connects, reads a           *)
(* length-prefixed greeting, then loops: prompt for a command and its      *)
(* fields, serialise the request to JSON, frame it with a 4-byte           *)
(* big-endian length, send it, read one framed response and print it.      *)
(*                                                                         *)
(* Text (typed lines, JSON text) is modelled by TLA+ strings; bytes on the *)
(* wire are sequences of integers 0..255.  The TCP stream from the peer is *)
(* the history `stream` of bytes the peer has written plus the number      *)
(* `pos` of bytes the client's recv calls have consumed; a recv(n) call    *)
(* returns between 1 and n of the bytes that are available, or the empty   *)
(* bytes object once the peer has closed and the stream is drained.        *)
(* sendall is modelled as completing: the kernel accepts the bytes.        *)
(***************************************************************************)
EXTENDS Integers, Sequences, FiniteSets, TLC

\* Bounds of the model.
MaxCmds == 2      \* lines answered at the "kind: " prompt
MaxFrames == 3    \* frames the peer starts, the greeting included

-----------------------------------------------------------------------------
(* Text and bytes *)

\* The printable ASCII characters, code 32 first.  Code 96 (the grave accent)
\* cannot be written in a TLA+ string; a line feed, which Ord never looks up
\* here, holds its place.
Ascii ==
  " !\"#$%&'()*+,-./0123456789:;<=>?@ABCDEFGHIJKLMNOPQRSTUVWXYZ[\\]^_\nabcdefghijklmnopqrstuvwxyz{|}~"

CharAt(s, i) == SubSeq(s, i, i)

\* The code points of the characters of Ascii, and of the tab.
OrdTable ==
  [c \in { CharAt(Ascii, i) : i \in 1..Len(Ascii) } \cup { "\t" } |->
     IF c = "\t" THEN 9
     ELSE IF c = "\n" THEN 10
     ELSE 31 + (CHOOSE i \in 1..Len(Ascii) : CharAt(Ascii, i) = c)]

\* The code point of a one-character string (ASCII, one UTF-8 byte).
Ord(c) == OrdTable[c]

\* bytes(msg, "utf8") for ASCII text.
bytes(msg) == [i \in 1..Len(msg) |-> Ord(CharAt(msg, i))]

IsSpace(c) == c \in {" ", "\t"}

RECURSIVE lstrip(_)
lstrip(s) ==
  IF Len(s) > 0 /\ IsSpace(Head(s)) THEN lstrip(Tail(s)) ELSE s

RECURSIVE rstrip(_)
rstrip(s) ==
  IF Len(s) > 0 /\ IsSpace(CharAt(s, Len(s)))
    THEN rstrip(SubSeq(s, 1, Len(s) - 1))
    ELSE s

\* str.strip()
strip(s) == rstrip(lstrip(s))

\* str.split(sep) for a one-character separator: a sequence of strings.
RECURSIVE split(_, _)
split(s, sep) ==
  IF \E i \in 1..Len(s) : CharAt(s, i) = sep
    THEN LET i == CHOOSE k \in 1..Len(s) :
                    /\ CharAt(s, k) = sep
                    /\ \A j \in 1..(k - 1) : CharAt(s, j) # sep
         IN  <<SubSeq(s, 1, i - 1)>> \o split(SubSeq(s, i + 1, Len(s)), sep)
    ELSE <<s>>

Digits == "0123456789"

IsDigit(c) == \E d \in 1..10 : CharAt(Digits, d) = c

DigitVal(c) == (CHOOSE d \in 1..10 : CharAt(Digits, d) = c) - 1

AllDigits(s) == Len(s) > 0 /\ \A i \in 1..Len(s) : IsDigit(CharAt(s, i))

\* Whether int(s) succeeds: an optional sign and at least one digit.  (int()
\* itself also skips blanks around the number; every call site strips first.)
IsInt(s) ==
  IF Len(s) > 0 /\ Head(s) \in {"-", "+"} THEN AllDigits(Tail(s)) ELSE AllDigits(s)

RECURSIVE DigitsVal(_)
DigitsVal(s) ==
  IF Len(s) = 0 THEN 0
  ELSE 10 * DigitsVal(SubSeq(s, 1, Len(s) - 1)) + DigitVal(CharAt(s, Len(s)))

\* int(s) where it succeeds.
int(s) ==
  IF Head(s) = "-" THEN 0 - DigitsVal(Tail(s))
  ELSE IF Head(s) = "+" THEN DigitsVal(Tail(s))
  ELSE DigitsVal(s)

RECURSIVE NatText(_)
NatText(n) ==
  IF n < 10 THEN CharAt(Digits, n + 1)
  ELSE NatText(n \div 10) \o CharAt(Digits, (n % 10) + 1)

\* json.dumps of an int.
DumpsInt(v) == IF v < 0 THEN "-" \o NatText(0 - v) ELSE NatText(v)

RECURSIVE Escape(_)
Escape(s) ==
  IF Len(s) = 0 THEN ""
  ELSE LET c == Head(s)
           e == IF c = "\"" THEN "\\\""
                ELSE IF c = "\\" THEN "\\\\"
                ELSE IF c = "\t" THEN "\\t"
                ELSE c
       IN  e \o Escape(Tail(s))

\* json.dumps of a str.
DumpsStr(s) == "\"" \o Escape(s) \o "\""

RECURSIVE Join(_, _)
Join(items, sep) ==
  IF Len(items) = 0 THEN ""
  ELSE IF Len(items) = 1 THEN items[1]
  ELSE items[1] \o sep \o Join(Tail(items), sep)

\* json.dumps of a list whose items are already serialised.
DumpsList(items) == "[" \o Join(items, ", ") \o "]"

DumpsStrList(strs) == DumpsList([i \in 1..Len(strs) |-> DumpsStr(strs[i])])

\* json.dumps of a dict, given as its <<key, serialised value>> pairs in
\* insertion order.
DumpsDict(pairs) ==
  "{" \o Join([i \in 1..Len(pairs) |-> DumpsStr(pairs[i][1]) \o ": " \o pairs[i][2]],
              ", ") \o "}"

\* The length written least significant byte first.
to_bytes_little(n) ==
  << n % 256, (n \div 256) % 256, (n \div 65536) % 256, (n \div 16777216) % 256 >>

\* n.to_bytes(4, "big"), for n < 2^32 (a larger n raises OverflowError).
to_bytes(n) ==
  << (n \div 16777216) % 256, (n \div 65536) % 256, (n \div 256) % 256, n % 256 >>

\* int.from_bytes(b, "big"), for any number of bytes.
RECURSIVE from_bytes(_)
from_bytes(b) ==
  IF Len(b) = 0 THEN 0
  ELSE 256 * from_bytes(SubSeq(b, 1, Len(b) - 1)) + b[Len(b)]

Min(a, b) == IF a < b THEN a ELSE b

-----------------------------------------------------------------------------
(* State *)

VARIABLES
  pc,            \* where the client is: "greet_hdr", "greet_body", "prompt",
                 \* "recv_hdr", "recv_body", or "error" (uncaught exception)
  response_len,  \* line 10
  expected_len,  \* line 142
  response,      \* lines 11 and 143-145: bytes received for the current message
  out,           \* every byte the client has written to the socket, in order
  printed,       \* what the client has printed: records [json, text]
  stream,        \* every byte the peer has written to the socket, in order
  pos,           \* how many bytes of stream the client's recv calls have consumed
  closed,        \* the peer has closed the connection
  frames,        \* the payloads of the frames the peer has started, in order
  sent,          \* the JSON text of every request handed to sendall, in order
  lines,         \* the lines typed since the last "kind: " prompt, that one first
  ncmd,          \* how many "kind: " prompts have been answered
  start          \* pos when the last request was sent

vars == << pc, response_len, expected_len, response, out, printed, stream, pos,
           closed, frames, sent, lines, ncmd, start >>

net == << stream, closed, frames >>
user == << lines, ncmd >>

\* The 4-byte length prefix and the payload (lines 138-141; the peer's frames
\* have the same layout).
Frame(payload) == to_bytes(Len(payload)) \o payload

-----------------------------------------------------------------------------
(* json.loads of received bytes *)

IsNumber(b) ==
  /\ Len(b) > 0
  /\ \A i \in 1..Len(b) : b[i] \in 48..57
  /\ Len(b) > 1 => b[1] # 48

IsArray(b) ==
  /\ Len(b) >= 2
  /\ b[1] = 91
  /\ b[Len(b)] = 93
  /\ Len(b) = 2 \/ IsNumber(SubSeq(b, 2, Len(b) - 1))

\* Whether json.loads(b) returns rather than raises.  The texts recognised are
\* numbers and arrays of at most one number, without blanks: enough for the
\* payloads the peer sends here.  Every other byte string the client can hold
\* in this model (the empty one, "[" cut from a payload, a payload followed by
\* bytes of the next length prefix) is not JSON, and json.loads raises on it.
loads_ok(b) == IsNumber(b) \/ IsArray(b)

\* print(json.loads(r)): lines 12 and 146.
PrintLoads(r) ==
  IF loads_ok(r)
    THEN /\ printed' = Append(printed, [json |-> r, text |-> ""])
         /\ pc' = "prompt"
    ELSE /\ printed' = printed
         /\ pc' = "error"

-----------------------------------------------------------------------------
(* recv *)

Avail == Len(stream) - pos

\* The lengths s.recv(n) can return now; none when it blocks.  A stream socket
\* returns as soon as some bytes are there, so any length from 1 to n.
RecvLens(n) ==
  IF n = 0 THEN {0}
  ELSE IF Avail > 0 THEN 1..Min(n, Avail)
  ELSE IF closed THEN {0}
  ELSE {}

Take(k) == SubSeq(stream, pos + 1, pos + k)

\* Line 10.
GreetHdr ==
  /\ pc = "greet_hdr"
  /\ \E k \in RecvLens(4) :
       /\ response_len' = from_bytes(Take(k))
       /\ pos' = pos + k
  /\ pc' = "greet_body"
  /\ UNCHANGED << expected_len, response, out, printed, net, sent, user, start >>

\* Lines 11-12.
GreetBody ==
  /\ pc = "greet_body"
  /\ \E k \in RecvLens(response_len) :
       /\ response' = Take(k)
       /\ pos' = pos + k
  /\ PrintLoads(response')
  /\ UNCHANGED << response_len, expected_len, out, net, sent, user, start >>

\* Lines 142-144, and line 146 when the loop is not entered.
RecvHdr ==
  /\ pc = "recv_hdr"
  /\ \E k \in RecvLens(4) :
       /\ expected_len' = from_bytes(Take(k))
       /\ pos' = pos + k
  /\ response' = << >>
  /\ IF Len(response') < expected_len'
       THEN pc' = "recv_body" /\ printed' = printed
       ELSE PrintLoads(response')
  /\ UNCHANGED << response_len, out, net, sent, user, start >>

\* One turn of the loop of lines 144-145, and line 146 when it ends.
RecvBody ==
  /\ pc = "recv_body"
  /\ \E k \in RecvLens(expected_len) :
       /\ response' = response \o Take(k)
       /\ pos' = pos + k
  /\ IF Len(response') < expected_len
       THEN pc' = "recv_body" /\ printed' = printed
       ELSE PrintLoads(response')
  /\ UNCHANGED << response_len, expected_len, out, net, sent, user, start >>

-----------------------------------------------------------------------------
(* The peer *)

\* The payloads the peer sends: "11" and "[]" are JSON, "[1" is not.
Payloads == { bytes("11"), bytes("[]"), bytes("[1") }

\* The peer writes one whole frame.
PeerSend ==
  /\ ~closed
  /\ Len(frames) < MaxFrames
  /\ \E p \in Payloads :
       /\ stream' = stream \o Frame(p)
       /\ frames' = Append(frames, p)
  /\ UNCHANGED << pc, response_len, expected_len, response, out, printed, pos,
                  closed, sent, user, start >>

\* The peer writes the first k bytes of a frame and closes.
PeerCut ==
  /\ ~closed
  /\ Len(frames) < MaxFrames
  /\ \E p \in Payloads : \E k \in 1..(Len(Frame(p)) - 1) :
       /\ stream' = stream \o SubSeq(Frame(p), 1, k)
       /\ frames' = Append(frames, p)
  /\ closed' = TRUE
  /\ UNCHANGED << pc, response_len, expected_len, response, out, printed, pos,
                  sent, user, start >>

\* The peer closes between frames.
PeerClose ==
  /\ ~closed
  /\ closed' = TRUE
  /\ UNCHANGED << pc, response_len, expected_len, response, out, printed, pos,
                  stream, frames, sent, user, start >>

-----------------------------------------------------------------------------
(* What the user may type *)

\* The command names of the if/elif chain, lines 16-132.
FieldKinds ==
  { "ls", "metadata", "select", "unique", "addqueue", "removequeue", "play",
    "setvol", "changevol", "seek", "speed", "disable", "enable", "fromfile",
    "save", "listsongs", "removeplaylist", "load", "addplaylist" }

\* Lines 115-132.
PlainKinds ==
  { "previous", "next", "pause", "resume", "stop", "toggle", "gapless", "clear",
    "random", "sequential", "single", "playlists", "queue", "state", "update",
    "devices" }

\* Lines typed at the "kind: " prompt: every command name, some with blanks
\* around them, and some lines that name no command.
KindLines ==
  FieldKinds \cup PlainKinds
    \cup { " ls ", "load\t", "", "bogus", "LS", "l s" }

\* Lines typed at a text prompt.
StrLines == { "a", " b ", "c\"" }

\* Lines typed at a prompt whose answer is split at ";".
ListLines == { "a;b", "" }

\* Lines typed at an integer prompt.
IntLines == { "1", " -1 ", "0", "007", "x", "" }

\* Lines typed at the "ids: " prompt.
IdsLines == { "1;2", " 3 ", "1;x", "" }

\* Lines typed at a count prompt (n_filters, n_comparators, n_group_by).
CountLines == { "0", "1", "2", "-1", "x" }

-----------------------------------------------------------------------------
(* The command loop, lines 13-141 *)

AtPrompt == pc = "prompt" /\ ncmd < MaxCmds

\* input("kind: ") and the field prompts that were answered.
Typed(ls) == lines' = ls /\ ncmd' = ncmd + 1

\* The request is written and the client prompts again without reading the
\* response.
Send_NoWait(msg) ==
  LET msg_bytes == bytes(msg)
      n == Len(msg_bytes)
  IN  /\ out' = (out \o to_bytes(n)) \o msg_bytes
      /\ sent' = Append(sent, msg)
      /\ pc' = "prompt"
      /\ start' = pos
      /\ UNCHANGED << response_len, expected_len, response, printed, pos, net >>

\* Lines 138-141: the request is framed and written, and the client goes on to
\* read the response.
Send(msg) ==
  LET msg_bytes == bytes(msg)
      n == Len(msg_bytes)
  IN  /\ out' = (out \o to_bytes(n)) \o msg_bytes
      /\ sent' = Append(sent, msg)
      /\ pc' = "recv_hdr"
      /\ start' = pos
      /\ UNCHANGED << response_len, expected_len, response, printed, pos, net >>

\* int() raises ValueError, which nothing catches: the process ends.
Raise ==
  /\ pc' = "error"
  /\ UNCHANGED << response_len, expected_len, response, out, printed, pos, net,
                  sent, start >>

IntOk(line) == IsInt(strip(line))
IntOf(line) == int(strip(line))

\* The index of the first line of ls that int() rejects, 0 when there is none.
FirstBad(ls) ==
  IF \E i \in 1..Len(ls) : ~IntOk(ls[i])
    THEN CHOOSE i \in 1..Len(ls) : ~IntOk(ls[i]) /\ \A j \in 1..(i - 1) : IntOk(ls[j])
    ELSE 0

\* Lines 16-18.
CmdLs(K) ==
  /\ AtPrompt
  /\ \E kl \in K, d \in StrLines :
       /\ strip(kl) = "ls"
       /\ Typed(<< kl, d >>)
       /\ Send(DumpsDict(<< << "kind", DumpsStr("ls") >>,
                            << "dir", DumpsStr(strip(d)) >> >>))

\* Lines 19-22.
CmdMetadata(K) ==
  /\ AtPrompt
  /\ \E kl \in K, p \in ListLines, t \in ListLines :
       /\ strip(kl) = "metadata"
       /\ Typed(<< kl, p, t >>)
       /\ Send(DumpsDict(<< << "kind", DumpsStr("metadata") >>,
                            << "paths", DumpsStrList(split(strip(p), ";")) >>,
                            << "tags", DumpsStrList(split(strip(t), ";")) >> >>))

\* range(n) for the loops of lines 26, 32, 42 and 48.
Range(n) == 1..(IF n < 0 THEN 0 ELSE n)

\* The lines of a sequence of <<tag, regex>> answers, in the order typed.
RECURSIVE Flat(_)
Flat(pairs) ==
  IF Len(pairs) = 0 THEN << >>
  ELSE << pairs[1][1], pairs[1][2] >> \o Flat(Tail(pairs))

\* Lines 29 and 45.
DumpsFilters(fs) ==
  DumpsList([i \in 1..Len(fs) |->
    DumpsDict(<< << "kind", DumpsStr("regex") >>,
                 << "tag", DumpsStr(strip(fs[i][1])) >>,
                 << "regex", DumpsStr(strip(fs[i][2])) >> >>)])

\* Line 34.
DumpsComparators(cs) ==
  DumpsList([i \in 1..Len(cs) |->
    DumpsDict(<< << "tag", DumpsStr(strip(cs[i])) >> >>)])

\* Line 50.
DumpsGroupBy(gs) == DumpsList([i \in 1..Len(gs) |-> DumpsStr(strip(gs[i]))])

\* Lines 23-37.
CmdSelect(K) ==
  /\ AtPrompt
  /\ \E kl \in K, nf \in CountLines :
       /\ strip(kl) = "select"
       /\ IF ~IntOk(nf)
            THEN Typed(<< kl, nf >>) /\ Raise
            ELSE \E fs \in [Range(IntOf(nf)) -> StrLines \X StrLines],
                    nc \in CountLines :
                   IF ~IntOk(nc)
                     THEN Typed((<< kl, nf >> \o Flat(fs)) \o << nc >>) /\ Raise
                     ELSE \E cs \in [Range(IntOf(nc)) -> StrLines] :
                            /\ Typed(((<< kl, nf >> \o Flat(fs)) \o << nc >>) \o cs)
                            /\ Send(DumpsDict(
                                 << << "kind", DumpsStr("select") >>,
                                    << "filters", DumpsFilters(fs) >>,
                                    << "comparators", DumpsComparators(cs) >> >>))

\* Lines 38-58.
CmdUnique(K) ==
  /\ AtPrompt
  /\ \E kl \in K, tag \in StrLines, nf \in CountLines :
       /\ strip(kl) = "unique"
       /\ IF ~IntOk(nf)
            THEN Typed(<< kl, tag, nf >>) /\ Raise
            ELSE \E fs \in [Range(IntOf(nf)) -> StrLines \X StrLines],
                    ng \in CountLines :
                   IF ~IntOk(ng)
                     THEN Typed((<< kl, tag, nf >> \o Flat(fs)) \o << ng >>) /\ Raise
                     ELSE \E gs \in [Range(IntOf(ng)) -> StrLines] :
                            /\ Typed(((<< kl, tag, nf >> \o Flat(fs)) \o << ng >>) \o gs)
                            /\ Send(DumpsDict(
                                 << << "kind", DumpsStr("unique") >>,
                                    << "tag", DumpsStr(strip(tag)) >>,
                                    << "filters", DumpsFilters(fs) >>,
                                    << "group_by", DumpsGroupBy(gs) >> >>))

\* Lines 63-64 and 108-109: the optional "pos" entry.
PosEntry(pos_) == IF pos_ >= 0 THEN << << "pos", DumpsInt(pos_) >> >> ELSE << >>

\* The range is sent when either end is non-negative.
RangeEntry_Or(range_l, range_r) ==
  IF range_l >= 0 \/ range_r >= 0
    THEN << << "range", DumpsList(<< DumpsInt(range_l), DumpsInt(range_r) >>) >> >>
    ELSE << >>

\* Lines 106-107: the optional "range" entry.
RangeEntry(range_l, range_r) ==
  IF range_l >= 0 /\ range_r >= 0
    THEN << << "range", DumpsList(<< DumpsInt(range_l), DumpsInt(range_r) >>) >> >>
    ELSE << >>

\* Lines 59-65.
CmdAddqueue(K) ==
  /\ AtPrompt
  /\ \E kl \in K, p \in ListLines, ps \in IntLines :
       /\ strip(kl) = "addqueue"
       /\ Typed(<< kl, p, ps >>)
       /\ IF ~IntOk(ps)
            THEN Raise
            ELSE Send(DumpsDict(
                   << << "kind", DumpsStr("addqueue") >>,
                      << "paths", DumpsStrList(split(strip(p), ";")) >> >>
                   \o PosEntry(IntOf(ps))))

\* Lines 66-68.
CmdRemovequeue(K) ==
  /\ AtPrompt
  /\ \E kl \in K, il \in IdsLines :
       /\ strip(kl) = "removequeue"
       /\ Typed(<< kl, il >>)
       /\ LET items == split(strip(il), ";")
          IN  IF \E i \in 1..Len(items) : ~IsInt(strip(items[i]))
                THEN Raise
                ELSE Send(DumpsDict(
                       << << "kind", DumpsStr("removequeue") >>,
                          << "ids", DumpsList([i \in 1..Len(items) |->
                                                 DumpsInt(int(strip(items[i])))]) >> >>))

\* The branches with one integer field: lines 69-83.  Each row is the command
\* name and the key its value is sent under.
IntCommands ==
  { << "play", "id" >>, << "setvol", "volume" >>, << "changevol", "delta" >>,
    << "seek", "seconds" >>, << "speed", "speed" >> }

CmdInt(K) ==
  /\ AtPrompt
  /\ \E kl \in K, c \in IntCommands, v \in IntLines :
       /\ strip(kl) = c[1]
       /\ Typed(<< kl, v >>)
       /\ IF ~IntOk(v)
            THEN Raise
            ELSE Send(DumpsDict(<< << "kind", DumpsStr(c[1]) >>,
                                   << c[2], DumpsInt(IntOf(v)) >> >>))

\* Both device commands are sent as "disable".
CmdDevice_Literal(K) ==
  /\ AtPrompt
  /\ \E kl \in K, d \in StrLines :
       /\ strip(kl) \in { "disable", "enable" }
       /\ Typed(<< kl, d >>)
       /\ Send(DumpsDict(<< << "kind", DumpsStr("disable") >>,
                            << "device", DumpsStr(strip(d)) >> >>))

\* Lines 84-86.
CmdDevice(K) ==
  /\ AtPrompt
  /\ \E kl \in K, d \in StrLines :
       /\ strip(kl) \in { "disable", "enable" }
       /\ Typed(<< kl, d >>)
       /\ Send(DumpsDict(<< << "kind", DumpsStr(strip(kl)) >>,
                            << "device", DumpsStr(strip(d)) >> >>))

\* The branches with one text field: lines 87-95.
StrCommands ==
  { << "fromfile", "path" >>, << "save", "path" >>, << "listsongs", "playlist" >> }

CmdStr(K) ==
  /\ AtPrompt
  /\ \E kl \in K, c \in StrCommands, v \in StrLines :
       /\ strip(kl) = c[1]
       /\ Typed(<< kl, v >>)
       /\ Send(DumpsDict(<< << "kind", DumpsStr(c[1]) >>,
                            << c[2], DumpsStr(strip(v)) >> >>))

\* A pos that does not parse is left out and the request is sent all the same.
CmdRemoveplaylist_SendAnyway(K) ==
  /\ AtPrompt
  /\ \E kl \in K, pl \in StrLines, ps \in IntLines :
       /\ strip(kl) = "removeplaylist"
       /\ Typed(<< kl, pl, ps >>)
       /\ IF ~IntOk(ps)
            THEN Send(DumpsDict(<< << "kind", DumpsStr("removeplaylist") >>,
                                   << "playlist", DumpsStr(strip(pl)) >> >>))
            ELSE Send(DumpsDict(<< << "kind", DumpsStr("removeplaylist") >>,
                                   << "playlist", DumpsStr(strip(pl)) >>,
                                   << "pos", DumpsInt(IntOf(ps)) >> >>))

\* Lines 96-99.
CmdRemoveplaylist(K) ==
  /\ AtPrompt
  /\ \E kl \in K, pl \in StrLines, ps \in IntLines :
       /\ strip(kl) = "removeplaylist"
       /\ Typed(<< kl, pl, ps >>)
       /\ IF ~IntOk(ps)
            THEN Raise
            ELSE Send(DumpsDict(<< << "kind", DumpsStr("removeplaylist") >>,
                                   << "playlist", DumpsStr(strip(pl)) >>,
                                   << "pos", DumpsInt(IntOf(ps)) >> >>))

\* Lines 100-110.
CmdLoad(K) ==
  /\ AtPrompt
  /\ \E kl \in K, pl \in StrLines, rl \in IntLines, rr \in IntLines, ps \in IntLines :
       /\ strip(kl) = "load"
       /\ LET bad == FirstBad(<< rl, rr, ps >>)
          IN  IF bad # 0
                THEN /\ Typed(<< kl, pl >> \o SubSeq(<< rl, rr, ps >>, 1, bad))
                     /\ Raise
                ELSE /\ Typed(<< kl, pl, rl, rr, ps >>)
                     /\ Send(DumpsDict(
                          (<< << "kind", DumpsStr("load") >>,
                              << "playlist", DumpsStr(strip(pl)) >> >>
                            \o RangeEntry(IntOf(rl), IntOf(rr)))
                            \o PosEntry(IntOf(ps))))

\* Lines 111-114.
CmdAddplaylist(K) ==
  /\ AtPrompt
  /\ \E kl \in K, pl \in StrLines, sg \in StrLines :
       /\ strip(kl) = "addplaylist"
       /\ Typed(<< kl, pl, sg >>)
       /\ Send(DumpsDict(<< << "kind", DumpsStr("addplaylist") >>,
                            << "playlist", DumpsStr(strip(pl)) >>,
                            << "song", DumpsStr(strip(sg)) >> >>))

\* Lines 115-133.
CmdPlain(K) ==
  /\ AtPrompt
  /\ \E kl \in K :
       /\ strip(kl) \in PlainKinds
       /\ Typed(<< kl >>)
       /\ Send(DumpsDict(<< << "kind", DumpsStr(strip(kl)) >> >>))

\* The else branch without its continue: the empty msg is framed and sent.
CmdInvalid_NoContinue(K) ==
  /\ AtPrompt
  /\ \E kl \in K :
       /\ strip(kl) \notin FieldKinds \cup PlainKinds
       /\ Typed(<< kl >>)
  /\ printed' = Append(printed, [json |-> << >>, text |-> "invalid request"])
  /\ out' = out \o to_bytes(0)
  /\ sent' = Append(sent, "")
  /\ pc' = "recv_hdr"
  /\ start' = pos
  /\ UNCHANGED << response_len, expected_len, response, pos, net >>

\* Lines 134-136: no branch matched.
CmdInvalid(K) ==
  /\ AtPrompt
  /\ \E kl \in K :
       /\ strip(kl) \notin FieldKinds \cup PlainKinds
       /\ Typed(<< kl >>)
  /\ printed' = Append(printed, [json |-> << >>, text |-> "invalid request"])
  /\ UNCHANGED << pc, response_len, expected_len, response, out, pos, net, sent,
                  start >>

\* The user ends the input at a prompt: input() raises EOFError.
InputEOF ==
  /\ pc = "prompt"
  /\ pc' = "error"
  /\ UNCHANGED << response_len, expected_len, response, out, printed, pos, net,
                  sent, user, start >>

-----------------------------------------------------------------------------
(* Specifications *)

\* Line 9: connected, nothing received or typed yet.
Init ==
  /\ pc = "greet_hdr"
  /\ response_len = 0
  /\ expected_len = 0
  /\ response = << >>
  /\ out = << >>
  /\ printed = << >>
  /\ stream = << >>
  /\ pos = 0
  /\ closed = FALSE
  /\ frames = << >>
  /\ sent = << >>
  /\ lines = << >>
  /\ ncmd = 0
  /\ start = 0

Receive == GreetHdr \/ GreetBody \/ RecvHdr \/ RecvBody

Peer == PeerSend \/ PeerCut \/ PeerClose

Commands(K) ==
  \/ CmdLs(K) \/ CmdMetadata(K) \/ CmdSelect(K) \/ CmdUnique(K)
  \/ CmdAddqueue(K) \/ CmdRemovequeue(K) \/ CmdInt(K) \/ CmdDevice(K)
  \/ CmdStr(K) \/ CmdRemoveplaylist(K) \/ CmdLoad(K) \/ CmdAddplaylist(K)
  \/ CmdPlain(K) \/ CmdInvalid(K)

\* The whole program with its peer and its user.
Next == Receive \/ Commands(KindLines) \/ InputEOF \/ Peer

Spec == Init /\ [][Next]_vars

\* The connection, with a user who types only these lines.
IOLines == { "state", " next ", "bogus", "" }

NextIO == Receive \/ CmdPlain(IOLines) \/ CmdInvalid(IOLines) \/ InputEOF \/ Peer

SpecIO == Init /\ [][NextIO]_vars

\* The client's own steps are taken when they can be: a recv call returns once
\* bytes are there or the peer has closed.
FairIO == SpecIO /\ WF_vars(Receive)

\* The command loop alone, from the first prompt: the peer has sent the
\* greeting "11", and in the second case has also answered a first request
\* "state" with "[]"; it sends nothing more.
GreetedStream == Frame(bytes("11"))
FirstRequest == DumpsDict(<< << "kind", DumpsStr("state") >> >>)

InitCmd ==
  /\ pc = "prompt"
  /\ response_len = 2
  /\ closed = FALSE
  /\ \/ /\ expected_len = 0
        /\ response = bytes("11")
        /\ out = << >>
        /\ printed = << [json |-> bytes("11"), text |-> ""] >>
        /\ stream = GreetedStream
        /\ frames = << bytes("11") >>
        /\ sent = << >>
        /\ lines = << >>
        /\ ncmd = 0
        /\ start = 0
     \/ /\ expected_len = 2
        /\ response = bytes("[]")
        /\ out = Frame(bytes(FirstRequest))
        /\ printed = << [json |-> bytes("11"), text |-> ""],
                        [json |-> bytes("[]"), text |-> ""] >>
        /\ stream = GreetedStream \o Frame(bytes("[]"))
        /\ frames = << bytes("11"), bytes("[]") >>
        /\ sent = << FirstRequest >>
        /\ lines = << "state" >>
        /\ ncmd = 1
        /\ start = Len(GreetedStream)
  /\ pos = Len(stream)

NextCmd == Commands(KindLines) \/ InputEOF

SpecCmd == InitCmd /\ [][NextCmd]_vars

-----------------------------------------------------------------------------
(* Properties *)

\* A 4-byte big-endian unsigned number, read as the peer reads it.
BE32(b) == ((b[1] * 16777216 + b[2] * 65536) + b[3] * 256) + b[4]

\* The command names the client knows.
RecognisedNames ==
  { "ls", "metadata", "select", "unique", "addqueue", "removequeue", "play",
    "setvol", "changevol", "seek", "speed", "disable", "enable", "fromfile",
    "save", "listsongs", "removeplaylist", "load", "addplaylist", "previous",
    "next", "pause", "resume", "stop", "toggle", "gapless", "clear", "random",
    "sequential", "single", "playlists", "queue", "state", "update", "devices" }

Contains(t, sub) ==
  \E i \in 1..(Len(t) - Len(sub) + 1) : SubSeq(t, i, i + Len(sub) - 1) = sub

EndsWith(t, sub) ==
  Len(t) >= Len(sub) /\ SubSeq(t, Len(t) - Len(sub) + 1, Len(t)) = sub

\* The bytes the step has added to out, and their part after the prefix.
NewBytes == SubSeq(out', Len(out) + 1, Len(out'))
NewPayload == SubSeq(NewBytes, 5, Len(NewBytes))

\* The step appends exactly one frame to out.
OneFrameAppended ==
  /\ Len(out') >= Len(out) + 4
  /\ SubSeq(out', 1, Len(out)) = out
  /\ \A i \in 1..4 : NewBytes[i] \in 0..255
  /\ BE32(SubSeq(NewBytes, 1, 4)) = Len(NewPayload)

\* C1: every request is written as a 4-byte big-endian length N followed by
\* exactly N bytes, the UTF-8 encoding of the request's JSON text, after the
\* bytes written before and with nothing else around them.
C1_RequestFraming ==
  [][ out' # out =>
        /\ OneFrameAppended
        /\ Len(sent') = Len(sent) + 1
        /\ NewPayload = bytes(sent'[Len(sent')]) ]_vars

\* A second request, longer than 40 bytes, has been written.
C1_Witness == pc = "recv_hdr" /\ Len(sent) = 2 /\ Len(sent[2]) > 40 /\ Len(out) > 60

\* Where the j-th frame of the peer ends in stream.
RECURSIVE Boundary(_)
Boundary(j) == IF j = 0 THEN 0 ELSE Boundary(j - 1) + 4 + Len(frames[j])

Reading == pc \in { "recv_hdr", "recv_body" }

\* C2: when a response whose frame starts where the read starts and is whole
\* in the stream is decoded, the client has consumed exactly the frame's
\* 4 + L bytes and decodes exactly its L payload bytes.
C2_ExactFrameConsumed ==
  [][ (Reading /\ ~Reading') =>
        \A j \in 1..Len(frames) :
          (Boundary(j - 1) = start /\ Len(stream) >= Boundary(j)) =>
            (pos' = Boundary(j) /\ response' = frames[j]) ]_vars

\* How many frames b holds, each read by its length prefix.
RECURSIVE CountFrames(_)
CountFrames(b) ==
  IF Len(b) < 4 THEN 0
  ELSE 1 + CountFrames(SubSeq(b, 5 + BE32(SubSeq(b, 1, 4)), Len(b)))

\* The responses printed: the JSON values printed after the greeting.
Responses == Cardinality({ i \in 2..Len(printed) : printed[i].text = "" })

\* C3: requests and responses alternate: at a prompt every request written has
\* had its response printed, while a response is read exactly one request is
\* outstanding, and never more than one is.
C3_Alternation ==
  LET req == CountFrames(out)
  IN  /\ req - Responses \in { 0, 1 }
      /\ pc \in { "greet_hdr", "greet_body" } => req = 0
      /\ pc = "prompt" => req = Responses
      /\ Reading => req = Responses + 1

\* Two requests have been answered and the client prompts again.
C3_Witness == pc = "prompt" /\ CountFrames(out) = 2 /\ Responses = 2

\* C4: once the client prompts (or has written anything), it has consumed the
\* whole greeting frame and has printed the greeting's payload.
C4_GreetingConsumed ==
  ( /\ (pc \in { "prompt", "recv_hdr", "recv_body" } \/ out # << >>)
    /\ Len(frames) >= 1
    /\ Len(stream) >= 4 + Len(frames[1]) )
  => /\ pos >= 4 + Len(frames[1])
     /\ printed[1] = [json |-> frames[1], text |-> ""]

\* C5: a line at the kind prompt that names no command makes the client print
\* "invalid request" and nothing else: no byte is written or read, and it is
\* at the prompt again.
C5_InvalidRequest ==
  [][ (ncmd' = ncmd + 1 /\ strip(lines'[1]) \notin RecognisedNames) =>
        /\ printed' = Append(printed, [json |-> << >>, text |-> "invalid request"])
        /\ out' = out
        /\ pos' = pos
        /\ pc = "prompt" /\ pc' = "prompt"
        /\ UNCHANGED << response_len, expected_len, response, stream, closed >> ]_vars

\* "invalid request" was printed for "bogus" while response bytes lay unread.
C5_Witness ==
  /\ pc = "prompt"
  /\ lines = << "bogus" >>
  /\ Len(printed) >= 2
  /\ printed[Len(printed)].text = "invalid request"
  /\ Avail > 0

\* The payload is a JSON object whose first entry is "kind": k.
KindIs(payload, k) ==
  LET head == bytes("{\"kind\": \"" \o k \o "\"")
  IN  /\ Len(payload) > Len(head)
      /\ SubSeq(payload, 1, Len(head)) = head
      /\ payload[Len(head) + 1] \in { Ord(","), Ord("}") }
      /\ payload[Len(payload)] = Ord("}")

\* C6: a recognised command whose fields are all entered validly writes
\* exactly one frame, whose JSON object has the stripped name as its "kind";
\* and whatever is written has a recognised "kind".
C6_KindSent ==
  [][ ncmd' = ncmd + 1 =>
        LET k == strip(lines'[1])
        IN  /\ (k \in RecognisedNames /\ pc' # "error") =>
                 (OneFrameAppended /\ KindIs(NewPayload, k))
            /\ out' # out =>
                 (k \in RecognisedNames /\ OneFrameAppended /\ KindIs(NewPayload, k)) ]_vars

\* "ls" was typed with blanks around it and its request has been written.
C6_Witness ==
  /\ pc = "recv_hdr"
  /\ Len(lines) = 2
  /\ lines[1] = " ls "
  /\ Contains(sent[Len(sent)], "\"kind\": \"ls\"")

\* The JSON texts among the payloads the peer sends.
JsonPayloads == { bytes("11"), bytes("[]"), bytes("1") }

\* C7: once the peer has closed and the stream is drained while the client
\* reads a response, the client ends in the error state; a response that is
\* not JSON ends it there too; and in the error state it neither prompts nor
\* writes again.
C7_ErrorsAreFatal ==
  /\ (Reading /\ closed /\ Avail = 0) ~> (pc = "error")
  /\ [][ (Reading /\ ~Reading' /\ response' \notin JsonPayloads) => pc' = "error" ]_vars
  /\ [][ pc = "error" => (pc' = "error" /\ out' = out /\ ncmd' = ncmd) ]_vars

\* C8: once the peer has closed, the read of a response ends: the client
\* prints the response or stops with an error.
C8_ReadTerminates == (Reading /\ closed) ~> (pc \in { "prompt", "error" })

\* The value of each line typed at an integer prompt that is an integer.
TypedInt == [l \in { "1", " -1 ", "0", "007" } |-> 
               IF l = "1" THEN 1 ELSE IF l = " -1 " THEN 0 - 1
               ELSE IF l = "0" THEN 0 ELSE 7]

\* The JSON text of those values.
Dec(v) == IF v = 0 - 1 THEN "-1" ELSE IF v = 0 THEN "0" ELSE IF v = 1 THEN "1" ELSE "7"

\* The request for command k has just been written.
JustSent(k) == pc = "recv_hdr" /\ Len(lines) > 0 /\ strip(lines[1]) = k

LastSent == sent[Len(sent)]

\* The request ends with the entry "pos": v exactly when v >= 0, and has no
\* "pos" key otherwise.
PosSentIff(v) ==
  IF v >= 0 THEN EndsWith(LastSent, ", \"pos\": " \o Dec(v) \o "}")
  ELSE ~Contains(LastSent, "\"pos\"")

\* C9: "addqueue" and "load" carry "pos" exactly when the entered pos is >= 0,
\* with that value; "load" carries "range" exactly when both entered ends are
\* >= 0, as [range_l, range_r]; the one does not depend on the other.
C9_OptionalFields ==
  /\ JustSent("addqueue") => PosSentIff(TypedInt[lines[3]])
  /\ JustSent("load") =>
       LET l == TypedInt[lines[3]]
           r == TypedInt[lines[4]]
       IN  /\ PosSentIff(TypedInt[lines[5]])
           /\ IF l >= 0 /\ r >= 0
                THEN Contains(LastSent,
                       ", \"range\": [" \o Dec(l) \o ", " \o Dec(r) \o "]")
                ELSE ~Contains(LastSent, "\"range\"")

\* A "load" was written with a range and without a pos, and one without a
\* range (only one end negative) and with a pos is possible too.
C9_Witness ==
  /\ JustSent("load")
  /\ lines[3] = "0" /\ lines[4] = "007" /\ lines[5] = " -1 "
  /\ Contains(LastSent, "\"range\": [0, 7]")
  /\ ~Contains(LastSent, "\"pos\"")

\* The lines typed that int() accepts, stripped.
IntTexts == { "0", "1", "2", "3", "-1", "007" }

Parses(line) == strip(line) \in IntTexts

\* Every integer field of the command typed as ls was typed and parses.
IntFieldsOk(ls) ==
  LET k == strip(ls[1])
      At(i) == Len(ls) >= i /\ Parses(ls[i])
      Count(i) == IF strip(ls[i]) = "1" THEN 1 ELSE IF strip(ls[i]) = "2" THEN 2 ELSE 0
  IN  IF k \in { "play", "setvol", "changevol", "seek", "speed" } THEN At(2)
      ELSE IF k \in { "addqueue", "removeplaylist" } THEN At(3)
      ELSE IF k = "load" THEN At(3) /\ At(4) /\ At(5)
      ELSE IF k = "removequeue"
        THEN /\ Len(ls) >= 2
             /\ LET items == split(strip(ls[2]), ";")
                IN  \A i \in 1..Len(items) : Parses(items[i])
      ELSE IF k = "select" THEN At(2) /\ At(3 + 2 * Count(2))
      ELSE IF k = "unique" THEN At(3) /\ At(4 + 2 * Count(3))
      ELSE TRUE

\* b is the frames of the requests msgs, one after the other, and nothing else.
RECURSIVE WholeFrames(_, _)
WholeFrames(b, msgs) ==
  IF Len(msgs) = 0 THEN Len(b) = 0
  ELSE /\ Len(b) >= 4
       /\ LET n == BE32(SubSeq(b, 1, 4))
          IN  /\ Len(b) >= 4 + n
              /\ SubSeq(b, 5, 4 + n) = bytes(msgs[1])
              /\ WholeFrames(SubSeq(b, 5 + n, Len(b)), Tail(msgs))

\* C10: bytes are written only for a command whose integer fields have all
\* been typed and parse; when one does not parse the client stops having
\* written nothing; so the bytes written are always the whole frames of the
\* fully entered commands.
C10_SendAfterParse ==
  [][ /\ WholeFrames(out', sent')
      /\ out' # out => (pc = "prompt" /\ ncmd' = ncmd + 1 /\ IntFieldsOk(lines'))
      /\ (ncmd' = ncmd + 1 /\ ~IntFieldsOk(lines')) =>
           (out' = out /\ pc' = "error") ]_vars

\* A "load" stopped at a range_r that does not parse, after one whole request.
C10_Witness ==
  /\ pc = "error"
  /\ Len(lines) = 4 /\ strip(lines[1]) = "load" /\ lines[4] = "x"
  /\ Len(sent) = 1
  /\ out = Frame(bytes(sent[1]))

=============================================================================
